---- MODULE Spec2Model ----
(***************************************************************************)
(* MealMind backend: registration/login, JWT issuance and verification,    *)
(* the request authentication extractor, and the "create meal + upload N   *)
(* photos + link rows" workflow, modelled from the Rust sources.           *)
(*                                                                         *)
(* Strings that the code inspects character by character (emails,          *)
(* passwords) are sequences of one-character strings.  An Authorization    *)
(* header is a sequence of atoms: whitespace, a scheme word, or a compact  *)
(* token.  A compact token is the record of its claims plus the secret     *)
(* that produced its HMAC.                                                 *)
(***************************************************************************)
EXTENDS Integers, Sequences, FiniteSets, TLC

VARIABLES
    users,        \* rows of table users
    nextUserId,   \* next id the database hands out for a user row
    saltCtr,      \* number of salts drawn so far by hash_password
    reg,          \* the in-flight register requests
    config,       \* AppConfig.jwt, fixed at process start
    now,          \* the application clock (unix seconds)
    issued,       \* compact tokens a client holds
    lastReq,      \* the last login / refresh / get_me request
    resp,         \* the response to lastReq
    meals,        \* committed rows of table meals
    photos,       \* committed rows of table photos
    storage,      \* objects in the bucket
    call,         \* the in-flight create_meal_with_images calls
    dbNow,        \* the database clock behind created_at
    lastOp        \* the last update or unlink of a meal and its result

authVars == <<users, nextUserId, saltCtr, reg, config, now, issued, lastReq, resp>>
mealVars == <<meals, photos, storage, call, dbNow, lastOp>>
vars == <<users, nextUserId, saltCtr, reg, config, now, issued, lastReq, resp,
          meals, photos, storage, call, dbNow, lastOp>>

----------------------------------------------------------------------------
(* Bounds *)

NReq == 2          \* concurrent register requests
MaxTokens == 2     \* tokens a client keeps
MaxTime == 180     \* the application clock stops here
TickSecs == 60     \* one step of the application clock
MaxImages == 2     \* images per request
MaxClock == 1      \* the database clock stops here

Reqs == 1..NReq
\* the create_meal_with_images calls in flight
Calls == {1, 2}

----------------------------------------------------------------------------
(* Strings *)

IsWs(c) == c \in {" ", "\t"}

RECURSIVE trim_start(_)
trim_start(s) ==
    IF s = <<>> THEN s
    ELSE IF IsWs(Head(s)) THEN trim_start(Tail(s)) ELSE s

RECURSIVE trim_end(_)
trim_end(s) ==
    IF s = <<>> THEN s
    ELSE IF IsWs(s[Len(s)]) THEN trim_end(SubSeq(s, 1, Len(s) - 1)) ELSE s

trim(s) == trim_end(trim_start(s))

lower_char(c) ==
    CASE c = "A" -> "a"
      [] c = "B" -> "b"
      [] c = "C" -> "c"
      [] c = "X" -> "x"
      [] OTHER -> c

to_lowercase(s) == [i \in 1..Len(s) |-> lower_char(s[i])]

\* payload.email.trim().to_lowercase() with the lowercasing left out
normalize_email_keep_case(raw) == trim(raw)

\* payload.email = payload.email.trim().to_lowercase()
normalize_email(raw) == to_lowercase(trim(raw))

\* ^[^@\s]+@[^@\s]+\.[^@\s]+$
is_valid_email(s) ==
    \E i \in 1..Len(s) : \E j \in 1..Len(s) :
        /\ s[i] = "@"
        /\ s[j] = "."
        /\ 1 < i
        /\ i + 1 < j
        /\ j < Len(s)
        /\ \A k \in 1..Len(s) : k # i => (s[k] # "@" /\ ~IsWs(s[k]))

RawEmails ==
    { <<"a", "@", "b", ".", "c">>,
      <<" ", "A", "@", "B", ".", "c", " ">>,
      <<"A", "@", "b", ".", "c">>,
      <<"x", "@", "b", ".", "c">>,
      <<"a", " ", "@", "b", ".", "c">>,
      <<"a", "@", "b">> }

Passwords ==
    { <<"p", "a", "s", "s", "w", "o", "r", "d">>,
      <<"p", "a", "s", "s", "w", "o", "r">>,
      <<"h", "u", "n", "t", "e", "r", "2", "2", "2">> }

\* the passwords sent to register
RegisterPasswords ==
    { <<"p", "a", "s", "s", "w", "o", "r", "d">>,
      <<"p", "a", "s", "s", "w", "o", "r">> }

MinPasswordLen == 8

----------------------------------------------------------------------------
(* Password hashing *)

\* argon2 with a fresh salt: the encoded hash carries the salt and the digest
hash_password(plain, salt) ==
    [salt |-> salt, digest |-> <<salt, plain>>]

\* verify_password accepting every password
verify_password_any(plain, hash) == TRUE

verify_password(plain, hash) ==
    hash.digest = <<hash.salt, plain>>

----------------------------------------------------------------------------
(* Tokens *)

Leeway == 60

\* FromRef<AppState> for JwtKeys: Duration::from_secs((ttl_minutes as u64) * 60).
\* For the TTLs 0 <= ttl_minutes of Configs the cast is exact and the product
\* does not overflow; the TTLs are seconds.
JwtKeys(cfg) ==
    [secret      |-> cfg.secret,
     issuer      |-> cfg.issuer,
     audience    |-> cfg.audience,
     access_ttl  |-> cfg.ttl_minutes * 60,
     refresh_ttl |-> cfg.refresh_ttl_minutes * 60]

\* sign_with_kind with the issuer and the audience written to each other's claim
sign_with_kind_swapped(keys, user_id, kind, t) ==
    LET ttl == IF kind = "Access" THEN keys.access_ttl ELSE keys.refresh_ttl
    IN  [sub  |-> user_id,
         iat  |-> t,
         exp  |-> t + ttl,
         iss  |-> keys.audience,
         aud  |-> keys.issuer,
         kind |-> kind,
         sig  |-> keys.secret]

sign_with_kind(keys, user_id, kind, t) ==
    LET ttl == IF kind = "Access" THEN keys.access_ttl ELSE keys.refresh_ttl
    IN  [sub  |-> user_id,
         iat  |-> t,
         exp  |-> t + ttl,
         iss  |-> keys.issuer,
         aud  |-> keys.audience,
         kind |-> kind,
         sig  |-> keys.secret]

sign_access(keys, user_id, t) == sign_with_kind(keys, user_id, "Access", t)

sign_refresh(keys, user_id, t) == sign_with_kind(keys, user_id, "Refresh", t)

Ok(v) == [tag |-> "Ok", val |-> v]
Err(e) == [tag |-> "Err", val |-> e]

\* a token string: a sequence of atoms; it decodes when it is one token atom
Tok(tk) == [t |-> "tok", w |-> "", tok |-> tk]
NoTok == [sub |-> 0, iat |-> 0, exp |-> 0, iss |-> "", aud |-> "",
          kind |-> "Access", sig |-> ""]
Ws == [t |-> "ws", w |-> " ", tok |-> NoTok]
Word(w) == [t |-> "word", w |-> w, tok |-> NoTok]
\* bytes of a header value that are not visible ASCII
Opaque == [t |-> "opaque", w |-> "", tok |-> NoTok]

\* verify without the expiry test
verify_no_expiry(keys, s, t) ==
    IF Len(s) # 1 \/ s[1].t # "tok" THEN Err("InvalidToken")
    ELSE LET c == s[1].tok IN
         IF c.sig # keys.secret THEN Err("InvalidSignature")
         ELSE IF keys.issuer # "" /\ c.iss # keys.issuer THEN Err("InvalidIssuer")
         ELSE IF keys.audience # "" /\ c.aud # keys.audience THEN Err("InvalidAudience")
         ELSE Ok(c)

\* decode::<Claims>(token, &self.decoding, &validation) under HS256,
\* leeway 60, issuer and audience checked only when configured
verify(keys, s, t) ==
    IF Len(s) # 1 \/ s[1].t # "tok" THEN Err("InvalidToken")
    ELSE LET c == s[1].tok IN
         IF c.sig # keys.secret THEN Err("InvalidSignature")
         ELSE IF c.exp < t - Leeway THEN Err("ExpiredSignature")
         ELSE IF keys.issuer # "" /\ c.iss # keys.issuer THEN Err("InvalidIssuer")
         ELSE IF keys.audience # "" /\ c.aud # keys.audience THEN Err("InvalidAudience")
         ELSE Ok(c)

\* verify_refresh without the kind test
verify_refresh_any_kind(keys, s, t) == verify(keys, s, t)

verify_refresh(keys, s, t) ==
    LET r == verify(keys, s, t) IN
    IF r.tag = "Err" THEN r
    ELSE IF r.val.kind # "Refresh" THEN Err("not a refresh token")
    ELSE r

----------------------------------------------------------------------------
(* The authentication extractor *)

NoHeader == [present |-> FALSE, atoms |-> <<>>]
Header(atoms) == [present |-> TRUE, atoms |-> atoms]

RECURSIVE hdr_trim_start(_)
hdr_trim_start(s) ==
    IF s = <<>> THEN s
    ELSE IF Head(s).t = "ws" THEN hdr_trim_start(Tail(s)) ELSE s

RECURSIVE hdr_trim_end(_)
hdr_trim_end(s) ==
    IF s = <<>> THEN s
    ELSE IF s[Len(s)].t = "ws" THEN hdr_trim_end(SubSeq(s, 1, Len(s) - 1)) ELSE s

hdr_trim(s) == hdr_trim_end(hdr_trim_start(s))

\* s.strip_prefix("<word> ")
strip_prefix(s, word) ==
    IF Len(s) >= 2 /\ s[1].t = "word" /\ s[1].w = word /\ s[2].t = "ws"
    THEN Ok(SubSeq(s, 3, Len(s)))
    ELSE Err("no prefix")

Rejection(msg) == Err([status |-> 401, body |-> msg])

\* HeaderValue::to_str: fails unless every byte is visible ASCII
to_str(atoms) ==
    IF \E i \in 1..Len(atoms) : atoms[i].t = "opaque"
    THEN Err("not visible ASCII") ELSE Ok(atoms)

\* the extractor with the token-kind test left out
from_request_parts_any_kind(h, keys, t) ==
    IF ~h.present \/ to_str(h.atoms).tag = "Err"
    THEN Rejection("missing Authorization header")
    ELSE LET auth_trimmed == hdr_trim(to_str(h.atoms).val)
             p1 == strip_prefix(auth_trimmed, "Bearer")
             p2 == IF p1.tag = "Ok" THEN p1 ELSE strip_prefix(auth_trimmed, "bearer")
         IN  IF p2.tag = "Err" THEN Rejection("invalid auth scheme")
             ELSE LET c == verify(keys, p2.val, t) IN
                  IF c.tag = "Err" THEN Rejection("invalid or expired token")
                  ELSE Ok(c.val.sub)

\* impl FromRequestParts for AuthUser
from_request_parts(h, keys, t) ==
    IF ~h.present \/ to_str(h.atoms).tag = "Err"
    THEN Rejection("missing Authorization header")
    ELSE LET auth_trimmed == hdr_trim(to_str(h.atoms).val)
             p1 == strip_prefix(auth_trimmed, "Bearer")
             p2 == IF p1.tag = "Ok" THEN p1 ELSE strip_prefix(auth_trimmed, "bearer")
         IN  IF p2.tag = "Err" THEN Rejection("invalid auth scheme")
             ELSE LET c == verify(keys, p2.val, t) IN
                  IF c.tag = "Err" THEN Rejection("invalid or expired token")
                  ELSE IF c.val.kind # "Access" THEN Rejection("access token required")
                  ELSE Ok(c.val.sub)

----------------------------------------------------------------------------
(* Table users *)

\* SELECT ... FROM users WHERE email = $1, fetch_optional: the set of matching
\* rows (at most one), or the database error
find_by_email(rows, email, dbErr) ==
    IF dbErr THEN Err("error communicating with database")
    ELSE Ok({u \in rows : u.email = email})

\* the UNIQUE constraint on users.email
users_email_taken(rows, email) == \E u \in rows : u.email = email

\* INSERT INTO users (email, password_hash) ... RETURNING: the result and the
\* rows of the table afterwards
User_create(rows, email, password_hash, id, dbErr) ==
    IF dbErr THEN [res |-> Err("error communicating with database"), rows |-> rows]
    ELSE IF users_email_taken(rows, email)
    THEN [res |-> Err("duplicate key value violates unique constraint"), rows |-> rows]
    ELSE LET u == [id |-> id, email |-> email, password_hash |-> password_hash]
         IN  [res |-> Ok(u), rows |-> rows \cup {u}]

\* SELECT ... FROM users WHERE id = $1, fetch_one
fetch_user_by_id(rows, id, dbErr) ==
    IF dbErr THEN Err("error communicating with database")
    ELSE IF \E u \in rows : u.id = id
    THEN Ok(CHOOSE u \in rows : u.id = id)
    ELSE Err("no rows returned by a query that expected to return at least one row")

----------------------------------------------------------------------------
(* POST /auth/register: two database round trips, the lookup and the insert *)

RegIdle ==
    [pc |-> "idle", rawEmail |-> <<>>, password |-> <<>>, email |-> <<>>,
     lookup |-> "none", insert |-> "none", status |-> 0, body |-> "",
     userId |-> 0, tokens |-> <<>>, doneBefore |-> {}]

RegDone(rq, status, body) ==
    [rq EXCEPT !.pc = "done", !.status = status, !.body = body]

DoneRegs == {q \in Reqs : reg[q].pc = "done"}

\* register, from the start of the handler to the answer of find_by_email
RegisterLookup(r) ==
    /\ reg[r].pc = "idle"
    /\ \E raw \in RawEmails, pw \in RegisterPasswords, dbErr \in BOOLEAN :
        LET email == normalize_email(raw)
            rq == [reg[r] EXCEPT !.rawEmail = raw, !.password = pw,
                                 !.email = email, !.doneBefore = DoneRegs]
        IN  IF ~is_valid_email(email)
            THEN reg' = [reg EXCEPT ![r] = RegDone(rq, 400, "Invalid email")]
            ELSE IF Len(pw) < MinPasswordLen
            THEN reg' = [reg EXCEPT ![r] = RegDone(rq, 400, "Password too short")]
            ELSE LET found == find_by_email(users, email, dbErr) IN
                 IF found.tag = "Ok" /\ found.val # {}
                 THEN reg' = [reg EXCEPT ![r] =
                                RegDone([rq EXCEPT !.lookup = "some"],
                                        409, "Email already registered")]
                 ELSE reg' = [reg EXCEPT ![r] =
                                [rq EXCEPT !.pc = "insert",
                                           !.lookup = IF found.tag = "Ok"
                                                      THEN "absent" ELSE "err"]]
    /\ UNCHANGED <<users, nextUserId, saltCtr, config, now, issued, lastReq, resp>>
    /\ UNCHANGED mealVars

\* register, from hash_password to the response
RegisterInsert(r) ==
    /\ reg[r].pc = "insert"
    /\ \E hashErr \in BOOLEAN, dbErr \in BOOLEAN :
        LET rq == reg[r]
            hash == hash_password(rq.password, saltCtr)
            created == User_create(users, rq.email, hash, nextUserId, dbErr)
            keys == JwtKeys(config)
        IN  IF hashErr
            THEN /\ reg' = [reg EXCEPT ![r] = RegDone(rq, 500, "argon2 error")]
                 /\ UNCHANGED <<users, nextUserId, saltCtr>>
            ELSE /\ saltCtr' = saltCtr + 1
                 /\ users' = created.rows
                 /\ IF created.res.tag = "Err"
                    THEN /\ reg' = [reg EXCEPT ![r] =
                                RegDone([rq EXCEPT !.insert =
                                           IF dbErr THEN "err" ELSE "dup"],
                                        500, created.res.val)]
                         /\ UNCHANGED nextUserId
                    ELSE /\ nextUserId' = nextUserId + 1
                         /\ reg' = [reg EXCEPT ![r] =
                                RegDone([rq EXCEPT
                                           !.insert = "ok",
                                           !.userId = created.res.val.id,
                                           !.tokens =
                                              <<sign_access(keys, created.res.val.id, now),
                                                sign_refresh(keys, created.res.val.id, now)>>],
                                        200, "")]
    /\ UNCHANGED <<config, now, issued, lastReq, resp>>
    /\ UNCHANGED mealVars

----------------------------------------------------------------------------
(* Requests answered in one step: login, refresh, get_me *)

NoReq == [op |-> "none", raw |-> <<>>, password |-> <<>>, header |-> NoHeader,
          token |-> <<>>, at |-> 0]
NoResp == [status |-> 0, body |-> "", tokens |-> <<>>, user |-> 0,
           handlerRan |-> FALSE]

\* what the client keeps of a new token pair
Keep(pair) ==
    IF Cardinality(issued \cup {pair[1], pair[2]}) <= MaxTokens
    THEN issued \cup {pair[1], pair[2]}
    ELSE {pair[1], pair[2]}

\* login telling an unknown email from a wrong password
LoginRevealingUnknown ==
    /\ \E raw \in RawEmails, pw \in Passwords, dbErr \in BOOLEAN :
        LET email == normalize_email(raw)
            keys == JwtKeys(config)
            found == find_by_email(users, email, dbErr)
            rq == [NoReq EXCEPT !.op = "login", !.raw = raw, !.password = pw, !.at = now]
        IN  /\ lastReq' = rq
            /\ IF ~is_valid_email(email)
               THEN /\ resp' = [NoResp EXCEPT !.status = 400, !.body = "Invalid email"]
                    /\ UNCHANGED issued
               ELSE IF found.tag = "Err"
               THEN /\ resp' = [NoResp EXCEPT !.status = 500, !.body = found.val]
                    /\ UNCHANGED issued
               ELSE IF found.val = {}
               THEN /\ resp' = [NoResp EXCEPT !.status = 404, !.body = "User not found"]
                    /\ UNCHANGED issued
               ELSE LET user == CHOOSE u \in found.val : TRUE
                        pair == <<sign_access(keys, user.id, now),
                                  sign_refresh(keys, user.id, now)>>
                    IN  IF ~verify_password(pw, user.password_hash)
                        THEN /\ resp' = [NoResp EXCEPT !.status = 401,
                                                       !.body = "Invalid credentials"]
                             /\ UNCHANGED issued
                        ELSE /\ resp' = [NoResp EXCEPT !.status = 200, !.tokens = pair,
                                                       !.user = user.id]
                             /\ issued' = Keep(pair)
    /\ UNCHANGED <<users, nextUserId, saltCtr, reg, config, now>>
    /\ UNCHANGED mealVars

\* POST /auth/login
Login ==
    /\ \E raw \in RawEmails, pw \in Passwords, dbErr \in BOOLEAN :
        LET email == normalize_email(raw)
            keys == JwtKeys(config)
            found == find_by_email(users, email, dbErr)
            rq == [NoReq EXCEPT !.op = "login", !.raw = raw, !.password = pw, !.at = now]
        IN  /\ lastReq' = rq
            /\ IF ~is_valid_email(email)
               THEN /\ resp' = [NoResp EXCEPT !.status = 400, !.body = "Invalid email"]
                    /\ UNCHANGED issued
               ELSE IF found.tag = "Err"
               THEN /\ resp' = [NoResp EXCEPT !.status = 500, !.body = found.val]
                    /\ UNCHANGED issued
               ELSE IF found.val = {}
               THEN /\ resp' = [NoResp EXCEPT !.status = 401, !.body = "Invalid credentials"]
                    /\ UNCHANGED issued
               ELSE LET user == CHOOSE u \in found.val : TRUE
                        pair == <<sign_access(keys, user.id, now),
                                  sign_refresh(keys, user.id, now)>>
                    IN  IF ~verify_password(pw, user.password_hash)
                        THEN /\ resp' = [NoResp EXCEPT !.status = 401,
                                                       !.body = "Invalid credentials"]
                             /\ UNCHANGED issued
                        ELSE /\ resp' = [NoResp EXCEPT !.status = 200, !.tokens = pair,
                                                       !.user = user.id]
                             /\ issued' = Keep(pair)
    /\ UNCHANGED <<users, nextUserId, saltCtr, reg, config, now>>
    /\ UNCHANGED mealVars

\* the refresh_token strings a client can send
\* (a token it holds, junk, or the token of its last refresh request again)
RefreshBodies ==
    {<<Tok(tk)>> : tk \in issued} \cup {<<Word("junk")>>}
        \cup (IF lastReq.op = "refresh" THEN {lastReq.token} ELSE {})

\* refresh with rotation: only the refresh token of the pair answered last
\* is accepted
RefreshRotating ==
    /\ \E s \in RefreshBodies, dbErr \in BOOLEAN :
        LET keys == JwtKeys(config)
            checked == verify_refresh(keys, s, now)
            claims == IF checked.tag = "Ok" /\ resp.tokens # <<>>
                         /\ checked.val # resp.tokens[2]
                      THEN Err("refresh token already used") ELSE checked
            rq == [NoReq EXCEPT !.op = "refresh", !.token = s, !.at = now]
        IN  /\ lastReq' = rq
            /\ IF claims.tag = "Err"
               THEN /\ resp' = [NoResp EXCEPT !.status = 401, !.body = claims.val]
                    /\ UNCHANGED issued
               ELSE LET pair == <<sign_access(keys, claims.val.sub, now),
                                  sign_refresh(keys, claims.val.sub, now)>>
                        user == fetch_user_by_id(users, claims.val.sub, dbErr)
                    IN  IF user.tag = "Err"
                        THEN /\ resp' = [NoResp EXCEPT !.status = 401,
                                                       !.body = "User not found"]
                             /\ UNCHANGED issued
                        ELSE /\ resp' = [NoResp EXCEPT !.status = 200, !.tokens = pair,
                                                       !.user = user.val.id]
                             /\ issued' = Keep(pair)
    /\ UNCHANGED <<users, nextUserId, saltCtr, reg, config, now>>
    /\ UNCHANGED mealVars

\* POST /auth/refresh
Refresh ==
    /\ \E s \in RefreshBodies, dbErr \in BOOLEAN :
        LET keys == JwtKeys(config)
            claims == verify_refresh(keys, s, now)
            rq == [NoReq EXCEPT !.op = "refresh", !.token = s, !.at = now]
        IN  /\ lastReq' = rq
            /\ IF claims.tag = "Err"
               THEN /\ resp' = [NoResp EXCEPT !.status = 401, !.body = claims.val]
                    /\ UNCHANGED issued
               ELSE LET pair == <<sign_access(keys, claims.val.sub, now),
                                  sign_refresh(keys, claims.val.sub, now)>>
                        user == fetch_user_by_id(users, claims.val.sub, dbErr)
                    IN  IF user.tag = "Err"
                        THEN /\ resp' = [NoResp EXCEPT !.status = 401,
                                                       !.body = "User not found"]
                             /\ UNCHANGED issued
                        ELSE /\ resp' = [NoResp EXCEPT !.status = 200, !.tokens = pair,
                                                       !.user = user.val.id]
                             /\ issued' = Keep(pair)
    /\ UNCHANGED <<users, nextUserId, saltCtr, reg, config, now>>
    /\ UNCHANGED mealVars

\* the Authorization headers a client can send with token tk
HeadersOf(tk) ==
    { Header(<<Word("Bearer"), Ws, Tok(tk)>>),
      Header(<<Word("bearer"), Ws, Tok(tk)>>),
      Header(<<Word("BEARER"), Ws, Tok(tk)>>),
      Header(<<Ws, Word("Bearer"), Ws, Tok(tk), Ws>>),
      Header(<<Word("Bearer"), Ws, Ws, Tok(tk)>>),
      Header(<<Word("Basic"), Ws, Tok(tk)>>),
      Header(<<Tok(tk)>>) }

Headers ==
    {NoHeader, Header(<<Opaque>>)} \cup UNION {HeadersOf(tk) : tk \in issued}

\* GET /me answering from the token alone, without reading the user row
GetMeTrustingToken ==
    /\ \E h \in Headers, dbErr \in BOOLEAN :
        LET keys == JwtKeys(config)
            auth == from_request_parts(h, keys, now)
            rq == [NoReq EXCEPT !.op = "get_me", !.header = h, !.at = now]
        IN  /\ lastReq' = rq
            /\ IF auth.tag = "Err"
               THEN resp' = [NoResp EXCEPT !.status = auth.val.status,
                                           !.body = auth.val.body]
               ELSE resp' = [NoResp EXCEPT !.status = 200, !.user = auth.val,
                                           !.handlerRan = TRUE]
    /\ UNCHANGED <<users, nextUserId, saltCtr, reg, config, now, issued>>
    /\ UNCHANGED mealVars

\* GET /me behind the AuthUser extractor
GetMe ==
    /\ \E h \in Headers, dbErr \in BOOLEAN :
        LET keys == JwtKeys(config)
            auth == from_request_parts(h, keys, now)
            rq == [NoReq EXCEPT !.op = "get_me", !.header = h, !.at = now]
        IN  /\ lastReq' = rq
            /\ IF auth.tag = "Err"
               THEN resp' = [NoResp EXCEPT !.status = auth.val.status,
                                           !.body = auth.val.body]
               ELSE LET user == fetch_user_by_id(users, auth.val, dbErr) IN
                    IF user.tag = "Err"
                    THEN resp' = [NoResp EXCEPT !.status = 401, !.body = "User not found",
                                                !.handlerRan = TRUE]
                    ELSE resp' = [NoResp EXCEPT !.status = 200, !.user = user.val.id,
                                                !.handlerRan = TRUE]
    /\ UNCHANGED <<users, nextUserId, saltCtr, reg, config, now, issued>>
    /\ UNCHANGED mealVars

\* the application clock advances
Tick ==
    /\ now + TickSecs <= MaxTime
    /\ now' = now + TickSecs
    /\ UNCHANGED <<users, nextUserId, saltCtr, reg, config, issued, lastReq, resp>>
    /\ UNCHANGED mealVars

\* tokens of another deployment: another secret, or the same secret and
\* another issuer or audience
ForeignTokens ==
    { [sub |-> 1, iat |-> 0, exp |-> 600, iss |-> "mealmind",
       aud |-> "mealmind-users", kind |-> "Access", sig |-> "k2"],
      [sub |-> 1, iat |-> 0, exp |-> 600, iss |-> "other",
       aud |-> "mealmind-users", kind |-> "Access", sig |-> "k1"] }

\* the client obtains a token that this process did not sign
Forge ==
    /\ \E tk \in ForeignTokens :
        /\ tk \notin issued
        /\ issued' = IF Cardinality(issued) < MaxTokens
                      THEN issued \cup {tk} ELSE {tk}
    /\ UNCHANGED <<users, nextUserId, saltCtr, reg, config, now, lastReq, resp>>
    /\ UNCHANGED mealVars

----------------------------------------------------------------------------
(* Meal creation: inputs *)

UserIds == {1, 2}
\* the bytes of the i-th image of a request
BodyAt(i) == IF i % 2 = 1 THEN "b1" ELSE "b2"
ImageLists == {[i \in 1..k |-> BodyAt(i)] : k \in 0..MaxImages}
ContentTypeLists ==
    { <<>>, <<"application/pdf", "image/webp">> }

\* CreatedMealRequest
MealRequests ==
    { [images |-> im, content_types |-> ct] :
        im \in ImageLists, ct \in ContentTypeLists }

\* normalize_images with the emptiness test left out
normalize_images_unchecked(req) ==
    Ok([i \in 1..Len(req.images) |->
          [body |-> req.images[i],
           content_type |-> IF i <= Len(req.content_types)
                            THEN req.content_types[i] ELSE "image/jpeg"]])

\* normalize_images with the default type of the multipart handler
normalize_images_octet_default(req) ==
    IF Len(req.images) = 0 THEN Err("no images provided")
    ELSE Ok([i \in 1..Len(req.images) |->
               [body |-> req.images[i],
                content_type |-> IF i <= Len(req.content_types)
                                 THEN req.content_types[i]
                                 ELSE "application/octet-stream"]])

\* Validate and pair image bytes with their MIME types.
normalize_images(req) ==
    IF Len(req.images) = 0 THEN Err("no images provided")
    ELSE Ok([i \in 1..Len(req.images) |->
               [body |-> req.images[i],
                content_type |-> IF i <= Len(req.content_types)
                                 THEN req.content_types[i] ELSE "image/jpeg"]])

ext_from_mime(ct) ==
    CASE ct \in {"image/jpeg", "image/jpg"} -> Ok("jpg")
      [] ct = "image/png" -> Ok("png")
      [] ct = "image/webp" -> Ok("webp")
      [] ct = "image/heic" -> Ok("heic")
      [] OTHER -> Err("None")

\* format!("meals/{}/{}-{}.{}", user_id, meal_id, id, ext)
storage_key(user_id, meal_id, id, ext) ==
    [user |-> user_id, meal |-> meal_id, photo |-> id, ext |-> ext]

----------------------------------------------------------------------------
(* Tables meals and photos, the bucket *)

\* the fresh id the database gives the meal row of call w
NewMealId(w) == w

\* the k-th Uuid::new_v4() of call w
NewPhotoId(w, k) == <<w, k>>

\* the column default of created_at: the reading of the database clock
created_at_default(clock) == clock

\* INSERT INTO meals (user_id) VALUES ($1) RETURNING id, created_at
create_meal_tx(user_id, id, t) ==
    [id |-> id, user_id |-> user_id, title |-> "", notes |-> "",
     created_at |-> created_at_default(t)]

\* repo::insert_photo_tx as upload_and_link_images calls it (id, user_id,
\* Some(meal_id), key): the repo of that module is not among the sources, so
\* the row is the one the workflow is specified to add: columns as in the
\* INSERT of photos/repo.rs, status 'uploaded', created_at by column default.
insert_photo_tx(photo_id, meal_id, s3_key, t) ==
    [id |-> photo_id, meal_id |-> meal_id, s3_key |-> s3_key,
     status |-> "uploaded", created_at |-> created_at_default(t)]

StoredKeys == {o.key : o \in storage}

\* the sequences that list the rows of S by ascending created_at
OrderedByCreatedAt(S) ==
    { s \in [1..Cardinality(S) -> S] :
        /\ \A i, j \in 1..Cardinality(S) : i # j => s[i] # s[j]
        /\ \A i, j \in 1..Cardinality(S) : i < j => s[i].created_at <= s[j].created_at }

----------------------------------------------------------------------------
(* create_meal_with_images: one step per database or storage round trip *)

CallIdle ==
    [pc |-> "idle", user |-> 0, req |-> [images |-> <<>>, content_types |-> <<>>],
     items |-> <<>>, meal_id |-> 0, created_at |-> 0, objs |-> <<>>, tx |-> <<>>,
     err |-> "", images |-> <<>>, puts |-> 0, writes |-> 0]

CallFail(c, e) == [c EXCEPT !.pc = "failed", !.err = e, !.tx = <<>>]

\* create_meal_with_images up to the commit of the meal row, then the
\* emptiness test at the head of upload_and_link_images
CreateMealStart(w) ==
    /\ call[w].pc = "idle"
    /\ \E u \in UserIds, req \in MealRequests, dbErr \in BOOLEAN :
        LET normalized == normalize_images(req)
            c == [call[w] EXCEPT !.user = u, !.req = req]
            row == create_meal_tx(u, NewMealId(w), dbNow)
        IN  IF normalized.tag = "Err"
            THEN /\ call' = [call EXCEPT ![w] = CallFail(c, normalized.val)]
                 /\ UNCHANGED meals
            ELSE IF dbErr
            THEN /\ call' = [call EXCEPT ![w] = CallFail(c, "insert meal")]
                 /\ UNCHANGED meals
            ELSE /\ meals' = meals \cup {row}
                 /\ LET c2 == [c EXCEPT !.items = normalized.val, !.meal_id = row.id,
                                        !.created_at = row.created_at, !.writes = 1]
                    IN  IF Len(normalized.val) = 0
                        THEN call' = [call EXCEPT ![w] = CallFail(c2, "no images provided")]
                        ELSE call' = [call EXCEPT ![w] = [c2 EXCEPT !.pc = "upload"]]
    /\ UNCHANGED <<photos, storage, dbNow, lastOp>>
    /\ UNCHANGED authVars

\* a failed put_object that the loop does not notice
PutObjectIgnoringFailure(w) ==
    /\ call[w].pc = "upload"
    /\ \E ok \in BOOLEAN :
        LET c == call[w]
            img == c.items[Len(c.objs) + 1]
            e == ext_from_mime(img.content_type)
            ext == IF e.tag = "Ok" THEN e.val ELSE "bin"
            id == NewPhotoId(w, c.puts + 1)
            key == storage_key(c.user, c.meal_id, id, ext)
            c2 == [c EXCEPT !.puts = c.puts + 1,
                            !.objs = Append(c.objs, [id |-> id, key |-> key])]
        IN  /\ storage' = IF ok
                          THEN storage \cup {[key |-> key, body |-> img.body,
                                              content_type |-> img.content_type]}
                          ELSE storage
            /\ call' = [call EXCEPT ![w] =
                          [c2 EXCEPT !.pc = IF Len(c2.objs) = Len(c.items)
                                            THEN "link" ELSE "upload"]]
    /\ UNCHANGED <<meals, photos, dbNow, lastOp>>
    /\ UNCHANGED authVars

\* the upload loop taking the images last first
PutObjectLastFirst(w) ==
    /\ call[w].pc = "upload"
    /\ \E ok \in BOOLEAN :
        LET c == call[w]
            img == c.items[Len(c.items) - Len(c.objs)]
            e == ext_from_mime(img.content_type)
            ext == IF e.tag = "Ok" THEN e.val ELSE "bin"
            id == NewPhotoId(w, c.puts + 1)
            key == storage_key(c.user, c.meal_id, id, ext)
            c1 == [c EXCEPT !.puts = c.puts + 1]
            c2 == [c1 EXCEPT !.objs = Append(c.objs, [id |-> id, key |-> key])]
        IN  /\ IF ok
               THEN /\ storage' = storage \cup {[key |-> key, body |-> img.body,
                                                 content_type |-> img.content_type]}
                    /\ call' = [call EXCEPT ![w] =
                                  [c2 EXCEPT !.pc = IF Len(c2.objs) = Len(c.items)
                                                    THEN "link" ELSE "upload"]]
               ELSE /\ UNCHANGED storage
                    /\ call' = [call EXCEPT ![w] = CallFail(c1, "put_object")]
    /\ UNCHANGED <<meals, photos, dbNow, lastOp>>
    /\ UNCHANGED authVars

\* one turn of the upload loop of upload_and_link_images
PutObject(w) ==
    /\ call[w].pc = "upload"
    /\ \E ok \in BOOLEAN :
        LET c == call[w]
            img == c.items[Len(c.objs) + 1]
            e == ext_from_mime(img.content_type)
            ext == IF e.tag = "Ok" THEN e.val ELSE "bin"
            id == NewPhotoId(w, c.puts + 1)
            key == storage_key(c.user, c.meal_id, id, ext)
            c1 == [c EXCEPT !.puts = c.puts + 1]
            c2 == [c1 EXCEPT !.objs = Append(c.objs, [id |-> id, key |-> key])]
        IN  /\ IF ok
               THEN /\ storage' = storage \cup {[key |-> key, body |-> img.body,
                                                 content_type |-> img.content_type]}
                    /\ call' = [call EXCEPT ![w] =
                                  [c2 EXCEPT !.pc = IF Len(c2.objs) = Len(c.items)
                                                    THEN "link" ELSE "upload"]]
               ELSE /\ UNCHANGED storage
                    /\ call' = [call EXCEPT ![w] = CallFail(c1, "put_object")]
    /\ UNCHANGED <<meals, photos, dbNow, lastOp>>
    /\ UNCHANGED authVars

\* one turn of the insert loop, inside the open transaction
InsertPhoto(w) ==
    /\ call[w].pc = "link"
    /\ Len(call[w].tx) < Len(call[w].objs)
    /\ LET c == call[w]
           o == c.objs[Len(c.tx) + 1]
       IN  call' = [call EXCEPT ![w] =
                      [c EXCEPT !.tx = Append(c.tx,
                                         insert_photo_tx(o.id, c.meal_id, o.key, dbNow)),
                                !.writes = c.writes + 1]]
    /\ UNCHANGED <<meals, photos, storage, dbNow, lastOp>>
    /\ UNCHANGED authVars

\* the ids that upload_and_link_images returns, last first
result_ids_reversed(objs) == [i \in 1..Len(objs) |-> objs[Len(objs) + 1 - i].id]

\* objs.into_iter().map(|o| o.id).collect()
result_ids(objs) == [i \in 1..Len(objs) |-> objs[i].id]

\* tx.commit(): the rows of the transaction become visible together
CommitPhotos(w) ==
    /\ call[w].pc = "link"
    /\ Len(call[w].tx) = Len(call[w].objs)
    /\ photos' = photos \cup {call[w].tx[i] : i \in 1..Len(call[w].tx)}
    /\ call' = [call EXCEPT ![w] =
                  [call[w] EXCEPT !.pc = "done", !.tx = <<>>,
                                  !.images = result_ids(call[w].objs)]]
    /\ UNCHANGED <<meals, storage, dbNow, lastOp>>
    /\ UNCHANGED authVars

\* the transaction fails and the uploaded objects of the call are deleted
TxFailDeletingObjects(w) ==
    /\ call[w].pc = "link"
    /\ call' = [call EXCEPT ![w] = CallFail(call[w], "photo tx")]
    /\ storage' = {o \in storage :
                     \A k \in 1..Len(call[w].objs) : o.key # call[w].objs[k].key}
    /\ UNCHANGED <<meals, photos, dbNow, lastOp>>
    /\ UNCHANGED authVars

\* begin, an insert or the commit fails: the transaction rolls back
TxFail(w) ==
    /\ call[w].pc = "link"
    /\ call' = [call EXCEPT ![w] = CallFail(call[w], "photo tx")]
    /\ UNCHANGED <<meals, photos, storage, dbNow, lastOp>>
    /\ UNCHANGED authVars

\* the request future is dropped at an await: an open transaction rolls back
DropRequest(w) ==
    /\ call[w].pc \in {"upload", "link"}
    /\ call' = [call EXCEPT ![w] = [call[w] EXCEPT !.pc = "dropped", !.tx = <<>>]]
    /\ UNCHANGED <<meals, photos, storage, dbNow, lastOp>>
    /\ UNCHANGED authVars

\* the database clock advances
DbTick ==
    /\ dbNow < MaxClock
    /\ dbNow' = dbNow + 1
    /\ UNCHANGED <<meals, photos, storage, call, lastOp>>
    /\ UNCHANGED authVars

\* get_meal_details: the meal row of id m that u may read, then its photo keys
\* ORDER BY created_at ASC; every answer the database may give
get_meal_details(u, m) ==
    IF \E r \in meals : r.id = m /\ (r.user_id = u \/ r.user_id = 0)
    THEN { Ok([id |-> m,
               images |-> [i \in 1..Len(s) |-> s[i].s3_key]]) :
             s \in OrderedByCreatedAt({p \in photos : p.meal_id = m}) }
    ELSE { Err("get meal") }

----------------------------------------------------------------------------
(* Meals of a user: update, soft-unlink, list, details *)

\* the meal ids a request can name
MealIds == {NewMealId(w) : w \in Calls}

\* title and notes of an update: Option<String>, "" standing for None
Titles == {"pasta", "soup"}
Notes == {"spicy"}

NoOp == [op |-> "none", user |-> 0, meal |-> 0, title |-> "", notes |-> "",
         res |-> Ok(<<>>)]

\* the rows of meals an UPDATE ... WHERE id = $3 AND (user_id = $4 OR user_id
\* IS NULL) touches; user_id 0 stands for NULL
rows_of_user_or_null(rows, user_id, meal_id) ==
    {r \in rows : r.id = meal_id /\ (r.user_id = user_id \/ r.user_id = 0)}

\* the rows of meals with id = $1 AND user_id = $2
rows_of_user(rows, user_id, meal_id) ==
    {r \in rows : r.id = meal_id /\ r.user_id = user_id}

\* update_meal_full: the result and the rows of meals afterwards
update_meal_full(rows, user_id, meal_id, title, notes, dbErr) ==
    IF dbErr THEN [res |-> Err("update meal"), rows |-> rows]
    ELSE LET hit == rows_of_user_or_null(rows, user_id, meal_id)
             after == (rows \ hit)
                         \cup {[r EXCEPT !.title = title, !.notes = notes] : r \in hit}
         IN  IF Cardinality(hit) = 1
             THEN [res |-> Ok(<<>>), rows |-> after]
             ELSE [res |-> Err("meal not found or not accessible"), rows |-> after]

\* unlink_meal_from_user whatever the owner of the row
unlink_meal_from_any_user(rows, user_id, meal_id, dbErr) ==
    IF dbErr THEN [res |-> Err("unlink meal"), rows |-> rows]
    ELSE LET hit == {r \in rows : r.id = meal_id}
             after == (rows \ hit) \cup {[r EXCEPT !.user_id = 0] : r \in hit}
         IN  IF Cardinality(hit) = 1
             THEN [res |-> Ok(<<>>), rows |-> after]
             ELSE [res |-> Err("meal not found or already unlinked"), rows |-> after]

\* unlink_meal_from_user: the result and the rows of meals afterwards
unlink_meal_from_user(rows, user_id, meal_id, dbErr) ==
    IF dbErr THEN [res |-> Err("unlink meal"), rows |-> rows]
    ELSE LET hit == rows_of_user(rows, user_id, meal_id)
             after == (rows \ hit) \cup {[r EXCEPT !.user_id = 0] : r \in hit}
         IN  IF Cardinality(hit) = 1
             THEN [res |-> Ok(<<>>), rows |-> after]
             ELSE [res |-> Err("meal not found or already unlinked"), rows |-> after]

\* a user updates title and notes of a meal
UpdateMeal ==
    /\ \E u \in UserIds, m \in MealIds, t \in Titles, n \in Notes, dbErr \in BOOLEAN :
        LET r == update_meal_full(meals, u, m, t, n, dbErr) IN
        /\ meals' = r.rows
        /\ lastOp' = [op |-> "update", user |-> u, meal |-> m, title |-> t,
                      notes |-> n, res |-> r.res]
    /\ UNCHANGED <<photos, storage, call, dbNow>>
    /\ UNCHANGED authVars

\* a user deletes a meal
UnlinkMeal ==
    /\ \E u \in UserIds, m \in MealIds, dbErr \in BOOLEAN :
        LET r == unlink_meal_from_user(meals, u, m, dbErr) IN
        /\ meals' = r.rows
        /\ lastOp' = [op |-> "unlink", user |-> u, meal |-> m, title |-> "",
                      notes |-> "", res |-> r.res]
    /\ UNCHANGED <<photos, storage, call, dbNow>>
    /\ UNCHANGED authVars

\* the sequences that list the rows of S by descending created_at
OrderedNewestFirst(S) ==
    { s \in [1..Cardinality(S) -> S] :
        /\ \A i, j \in 1..Cardinality(S) : i # j => s[i] # s[j]
        /\ \A i, j \in 1..Cardinality(S) : i < j => s[i].created_at >= s[j].created_at }

\* LIMIT $2 OFFSET $3 of the ordered rows
limit_offset(s, limit, offset) ==
    SubSeq(s, offset + 1, IF offset + limit < Len(s) THEN offset + limit ELSE Len(s))

\* array_agg(p.s3_key ORDER BY p.created_at ASC) of the photos of meal m
photo_keys(m) ==
    { [i \in 1..Len(s) |-> s[i].s3_key] :
        s \in OrderedByCreatedAt({p \in photos : p.meal_id = m}) }

\* the pagination a request can carry
Limits == 0..2
Offsets == 0..1

\* list_meals with the rows of no owner listed too
list_meals_or_null(user_id, limit, offset) ==
    UNION { LET pg == limit_offset(s, limit, offset) IN
            { Ok([i \in 1..Len(pg) |->
                    [id |-> pg[i].id, title |-> pg[i].title,
                     created_at |-> pg[i].created_at, photos |-> f[i]]]) :
                f \in { g \in [1..Len(pg) -> UNION {photo_keys(r.id) : r \in meals}] :
                          \A i \in 1..Len(pg) : g[i] \in photo_keys(pg[i].id) } } :
            s \in OrderedNewestFirst({r \in meals : r.user_id = user_id
                                                    \/ r.user_id = 0}) }

\* list_meals: every answer the database may give
list_meals(user_id, limit, offset) ==
    UNION { LET pg == limit_offset(s, limit, offset) IN
            { Ok([i \in 1..Len(pg) |->
                    [id |-> pg[i].id, title |-> pg[i].title,
                     created_at |-> pg[i].created_at, photos |-> f[i]]]) :
                f \in { g \in [1..Len(pg) -> UNION {photo_keys(r.id) : r \in meals}] :
                          \A i \in 1..Len(pg) : g[i] \in photo_keys(pg[i].id) } } :
            s \in OrderedNewestFirst({r \in meals : r.user_id = user_id}) }

\* Meal::list_by_user
list_by_user(user_id, limit, offset) ==
    { Ok(limit_offset(s, limit, offset)) :
        s \in OrderedNewestFirst({r \in meals : r.user_id = user_id}) }

\* Meal::get_with_nutrition; no row of meal_nutrition is ever written
get_with_nutrition(user_id, meal_id) ==
    IF \E r \in meals : r.id = meal_id /\ r.user_id = user_id
    THEN Ok(<<CHOOSE r \in meals : r.id = meal_id /\ r.user_id = user_id, "None">>)
    ELSE Err("no rows returned by a query that expected to return at least one row")

\* GET /meals/:id
get_meal(user_id, id) ==
    LET r == get_with_nutrition(user_id, id) IN
    IF r.tag = "Ok"
    THEN [status |-> 200, body |-> [id |-> r.val[1].id, title |-> r.val[1].title,
                                    notes |-> r.val[1].notes,
                                    created_at |-> r.val[1].created_at]]
    ELSE [status |-> 404, body |-> "Meal not found"]

----------------------------------------------------------------------------
(* Specifications *)

Configs ==
    { [secret |-> "k1", issuer |-> "mealmind", audience |-> "mealmind-users",
       ttl_minutes |-> m, refresh_ttl_minutes |-> 1] : m \in {0, 1} }

\* two users registered by an earlier run of the process
SeedUsers ==
    { [id |-> 1, email |-> <<"a", "@", "b", ".", "c">>,
       password_hash |-> hash_password(<<"p", "a", "s", "s", "w", "o", "r", "d">>, 100)],
      [id |-> 2, email |-> <<"x", "@", "b", ".", "c">>,
       password_hash |-> hash_password(<<"h", "u", "n", "t", "e", "r", "2", "2", "2">>, 101)] }

InitMeals ==
    /\ meals = {}
    /\ photos = {}
    /\ storage = {}
    /\ call = [w \in Calls |-> CallIdle]
    /\ dbNow = 0
    /\ lastOp = NoOp

InitAuth ==
    /\ saltCtr = 0
    /\ reg = [r \in Reqs |-> RegIdle]
    /\ config \in Configs
    /\ now = 0
    /\ issued = {}
    /\ lastReq = NoReq
    /\ resp = NoResp

\* registration and login against an empty users table
InitRegister ==
    /\ users = {}
    /\ nextUserId = 1
    /\ InitAuth
    /\ InitMeals

NextRegister ==
    \/ \E r \in Reqs : RegisterLookup(r)
    \/ \E r \in Reqs : RegisterInsert(r)

SpecRegister == InitRegister /\ [][NextRegister]_vars

\* tokens, the extractor and refresh against a users table with two rows
InitToken ==
    /\ users = SeedUsers
    /\ nextUserId = 3
    /\ InitAuth
    /\ InitMeals

NextToken ==
    \/ Login
    \/ Refresh
    \/ GetMe
    \/ Tick
    \/ Forge

SpecToken == InitToken /\ [][NextToken]_vars

\* the meal workflow
NextMeal ==
    \/ \E w \in Calls : CreateMealStart(w)
    \/ \E w \in Calls : PutObject(w)
    \/ \E w \in Calls : InsertPhoto(w)
    \/ \E w \in Calls : CommitPhotos(w)
    \/ \E w \in Calls : TxFail(w)
    \/ \E w \in Calls : DropRequest(w)
    \/ DbTick

SpecMeal == InitRegister /\ [][NextMeal]_vars

\* deployments that share the secret: JWT_ISSUER may be set to the empty
\* string; the audience is kept non-empty
KeyConfigs ==
    { [secret |-> "k1", issuer |-> i, audience |-> a,
       ttl_minutes |-> 1, refresh_ttl_minutes |-> 1] :
        i \in {"", "mealmind", "other"}, a \in {"mealmind-users", "other-users"} }

\* a client obtains a token that a deployment sharing the secret has signed
SignElsewhere ==
    /\ \E cfg \in KeyConfigs :
        LET tk == sign_access(JwtKeys(cfg), 1, now) IN
        /\ tk \notin issued
        /\ issued' = IF Cardinality(issued) < MaxTokens
                      THEN issued \cup {tk} ELSE {tk}
    /\ UNCHANGED <<users, nextUserId, saltCtr, reg, config, now, lastReq, resp>>
    /\ UNCHANGED mealVars

\* verification under any of the configurations
InitKeys ==
    /\ users = SeedUsers
    /\ nextUserId = 3
    /\ saltCtr = 0
    /\ reg = [r \in Reqs |-> RegIdle]
    /\ config \in KeyConfigs
    /\ now = 0
    /\ issued = {}
    /\ lastReq = NoReq
    /\ resp = NoResp
    /\ InitMeals

NextKeys ==
    \/ SignElsewhere
    \/ GetMe

SpecKeys == InitKeys /\ [][NextKeys]_vars

\* a user row is deleted from the database; no handler of the service does it
DeleteUser ==
    /\ \E u \in users : users' = users \ {u}
    /\ UNCHANGED <<nextUserId, saltCtr, reg, config, now, issued, lastReq, resp>>
    /\ UNCHANGED mealVars

\* tokens that outlive their user row
NextDeleted ==
    \/ Login
    \/ GetMe
    \/ DeleteUser

SpecDeleted == InitToken /\ [][NextDeleted]_vars

\* the images of the meal that is in the table at the start
SeedImages == [images |-> <<BodyAt(1), BodyAt(2)>>, content_types |-> <<>>]

\* the record of objects of call w for request req of user u
SeedObjs(w, u, req) ==
    [k \in 1..Len(req.images) |->
        [id |-> NewPhotoId(w, k),
         key |-> storage_key(u, NewMealId(w), NewPhotoId(w, k),
                             IF ext_from_mime(normalize_images(req).val[k].content_type).tag = "Ok"
                             THEN ext_from_mime(normalize_images(req).val[k].content_type).val
                             ELSE "bin")]]

\* create_meal_with_images of user u has returned for the first call; the
\* other call has not begun
InitOwn ==
    /\ users = SeedUsers
    /\ nextUserId = 3
    /\ saltCtr = 0
    /\ reg = [r \in Reqs |-> RegIdle]
    /\ config = CHOOSE c \in Configs : c.ttl_minutes = 1
    /\ now = 0
    /\ issued = {}
    /\ lastReq = NoReq
    /\ resp = NoResp
    /\ dbNow = 0
    /\ lastOp = NoOp
    /\ \E u \in UserIds :
        LET w == 1
            items == normalize_images(SeedImages).val
            objs == SeedObjs(w, u, SeedImages)
        IN  /\ meals = {create_meal_tx(u, NewMealId(w), 0)}
            /\ photos = {insert_photo_tx(objs[k].id, NewMealId(w), objs[k].key, 0) :
                            k \in 1..Len(objs)}
            /\ storage = {[key |-> objs[k].key, body |-> items[k].body,
                           content_type |-> items[k].content_type] : k \in 1..Len(objs)}
            /\ call = [v \in Calls |->
                         IF v = w
                         THEN [CallIdle EXCEPT !.pc = "done", !.user = u,
                                               !.req = SeedImages, !.items = items,
                                               !.meal_id = NewMealId(w), !.objs = objs,
                                               !.images = result_ids(objs),
                                               !.puts = Len(objs),
                                               !.writes = 1 + Len(objs)]
                         ELSE CallIdle]

\* the meals of the users: creation, update, soft-unlink
NextOwn ==
    \/ \E w \in Calls : CreateMealStart(w)
    \/ UpdateMeal
    \/ UnlinkMeal
    \/ DbTick

SpecOwn == InitOwn /\ [][NextOwn]_vars

\* one registration, and logins before and after it with the registered and
\* with other credentials
NextLogin ==
    \/ RegisterLookup(1)
    \/ RegisterInsert(1)
    \/ Login

SpecLogin == InitRegister /\ [][NextLogin]_vars

----------------------------------------------------------------------------
(* Registration: C1, C2 *)

\* C1: when two register requests for the same normalized email both pass
\* the find_by_email pre-check and both reach the INSERT, the one whose INSERT
\* meets the unique constraint is answered 409 "Email already registered".
C1_RaceLoserGets409 ==
    \A r1 \in Reqs : \A r2 \in Reqs :
        ( /\ r1 # r2
          /\ reg[r1].pc = "done" /\ reg[r2].pc = "done"
          /\ reg[r1].email = reg[r2].email
          /\ reg[r1].lookup = "absent" /\ reg[r2].lookup = "absent"
          /\ reg[r1].insert = "ok" /\ reg[r2].insert = "dup" )
        => ( /\ reg[r2].status = 409
             /\ reg[r2].body = "Email already registered" )

\* the first request was answered before the second one began
Sequential(r1, r2) == r1 # r2 /\ r1 \in reg[r2].doneBefore

SameNormalized(r1, r2) ==
    to_lowercase(trim(reg[r1].rawEmail)) = to_lowercase(trim(reg[r2].rawEmail))

\* C2: of two register requests made one after the other with emails equal
\* after trimming and lowercasing and passwords of at least 8 characters: a
\* request that finds the email free and meets no failure of the database or
\* the hasher succeeds and stores the normalized email; the request after a
\* successful one creates no row and, its lookup answered, gets 409.
C2_SequentialDuplicateRejected ==
    /\ \A r \in Reqs :
         ( /\ reg[r].pc = "done"
           /\ is_valid_email(to_lowercase(trim(reg[r].rawEmail)))
           /\ Len(reg[r].password) >= MinPasswordLen
           /\ reg[r].lookup = "absent"
           /\ reg[r].insert \notin {"dup", "err"}
           /\ reg[r].body # "argon2 error" )
         => ( /\ reg[r].status = 200
              /\ \E u \in users : /\ u.id = reg[r].userId
                                  /\ u.email = to_lowercase(trim(reg[r].rawEmail)) )
    /\ \A r1 \in Reqs : \A r2 \in Reqs :
         ( /\ Sequential(r1, r2)
           /\ reg[r1].status = 200
           /\ SameNormalized(r1, r2)
           /\ Len(reg[r2].password) >= MinPasswordLen )
         => ( /\ \E u \in users : /\ u.id = reg[r1].userId
                                  /\ u.email = to_lowercase(trim(reg[r1].rawEmail))
              /\ reg[r2].lookup \in {"some", "err"}
              /\ reg[r2].insert # "ok"
              /\ reg[r2].userId = 0
              /\ Cardinality({u \in users :
                                u.email = to_lowercase(trim(reg[r2].rawEmail))}) = 1
              /\ (reg[r2].pc = "done" /\ reg[r2].lookup = "some")
                    => (reg[r2].status = 409 /\ reg[r2].body = "Email already registered") )

\* a second request that differs from the first in case and padding got 409
C2_Witness ==
    \E r1 \in Reqs : \E r2 \in Reqs :
        /\ Sequential(r1, r2)
        /\ reg[r1].status = 200
        /\ reg[r2].status = 409
        /\ reg[r1].rawEmail # reg[r2].rawEmail
        /\ SameNormalized(r1, r2)

----------------------------------------------------------------------------
(* Meal creation: C3 .. C8 *)

MealRowOf(w) == {m \in meals : m.id = NewMealId(w)}
PhotoRowsOf(w) == {p \in photos : p.meal_id = NewMealId(w)}
ObjectsOf(w) == {o \in storage : o.key.meal = NewMealId(w)}
Started(w) == call[w].pc # "idle"

\* C3: whenever the meal row of a call is visible, all photo rows of that
\* call are visible too.
C3_MealNeverWithoutItsPhotos ==
    \A w \in Calls :
        MealRowOf(w) # {} => Cardinality(PhotoRowsOf(w)) = Len(call[w].req.images)

\* C4: after a put_object of the call failed, no meal row and no photo row
\* written by the call exists.
C4_UploadFailureLeavesNoRows ==
    \A w \in Calls :
        (call[w].pc = "failed" /\ call[w].err = "put_object")
        => (MealRowOf(w) = {} /\ PhotoRowsOf(w) = {})

\* C5: a call with an empty image list fails with "no images provided",
\* makes no put_object call and no database write, and leaves no meal row,
\* photo row or stored object behind.
C5_EmptyImagesTouchNothing ==
    \A w \in Calls :
        (Started(w) /\ Len(call[w].req.images) = 0)
        => ( /\ call[w].pc = "failed"
             /\ call[w].err = "no images provided"
             /\ call[w].puts = 0
             /\ call[w].writes = 0
             /\ MealRowOf(w) = {}
             /\ PhotoRowsOf(w) = {}
             /\ ObjectsOf(w) = {} )

\* an empty request failed while the other call had already written rows
C5_Witness ==
    \E w \in Calls : \E v \in Calls :
        /\ Len(call[w].req.images) = 0
        /\ call[w].pc = "failed"
        /\ call[w].err = "no images provided"
        /\ v # w
        /\ PhotoRowsOf(v) # {}

PendingRows == UNION {{call[w].tx[i] : i \in 1..Len(call[w].tx)} : w \in Calls}

----------------------------------------------------------------------------
(* Tokens: C9, C10 *)

TokensIn(h) == {h.atoms[i].tok : i \in {j \in 1..Len(h.atoms) : h.atoms[j].t = "tok"}}

\* a header that carries tk after the Bearer scheme
BearerOf(tk) ==
    { Header(<<Word("Bearer"), Ws, Tok(tk)>>),
      Header(<<Word("bearer"), Ws, Tok(tk)>>),
      Header(<<Ws, Word("Bearer"), Ws, Tok(tk), Ws>>) }

\* C9: the extractor yields no principal for a token whose kind is not
\* Access; a request that presents a refresh token which verify accepts, as a
\* bearer credential, is answered 401 "access token required" and its handler
\* does not run.
C9_RefreshTokenNeverAuthenticates ==
    /\ \A h \in Headers :
         LET r == from_request_parts(h, JwtKeys(config), now) IN
         r.tag = "Ok" => \A tk \in TokensIn(h) : tk.kind = "Access"
    /\ (lastReq.op = "get_me"
          /\ \E tk \in TokensIn(lastReq.header) : tk.kind # "Access")
       => ( /\ resp.status = 401
            /\ ~resp.handlerRan
            /\ resp.user = 0 )
    /\ (lastReq.op = "get_me"
          /\ \E tk \in TokensIn(lastReq.header) :
                /\ tk.kind = "Refresh"
                /\ lastReq.header \in BearerOf(tk)
                /\ verify(JwtKeys(config), <<Tok(tk)>>, lastReq.at).tag = "Ok")
       => resp.body = "access token required"

\* a refresh token that verify accepts was presented and turned away
C9_Witness ==
    /\ lastReq.op = "get_me"
    /\ \E tk \in TokensIn(lastReq.header) :
          /\ tk.kind = "Refresh"
          /\ lastReq.header \in BearerOf(tk)
          /\ verify(JwtKeys(config), <<Tok(tk)>>, lastReq.at).tag = "Ok"
    /\ resp.status = 401
    /\ resp.body = "access token required"
    /\ ~resp.handlerRan

\* C10: verify_refresh of a token just made by sign_access fails with "not a
\* refresh token"; POST /auth/refresh with an access token answers 401 and
\* returns no token pair, with that message whenever verify accepts the token.
C10_RefreshRejectsAccessToken ==
    /\ \A u \in {x.id : x \in users} :
         verify_refresh(JwtKeys(config),
                        <<Tok(sign_access(JwtKeys(config), u, now))>>, now)
            = Err("not a refresh token")
    /\ (lastReq.op = "refresh"
          /\ Len(lastReq.token) = 1
          /\ lastReq.token[1].t = "tok"
          /\ lastReq.token[1].tok.kind = "Access")
       => ( /\ resp.status = 401
            /\ resp.tokens = <<>>
            /\ verify(JwtKeys(config), lastReq.token, lastReq.at).tag = "Ok"
                  => resp.body = "not a refresh token" )

\* POST /auth/refresh was given an access token that verify accepts
C10_Witness ==
    /\ lastReq.op = "refresh"
    /\ Len(lastReq.token) = 1
    /\ lastReq.token[1].t = "tok"
    /\ lastReq.token[1].tok.kind = "Access"
    /\ lastReq.token[1].tok.sig = config.secret
    /\ resp.status = 401
    /\ resp.body = "not a refresh token"

----------------------------------------------------------------------------
(* Sign and verify: C11 .. C15 *)

Kinds == {"Access", "Refresh"}

TtlOf(keys, kind) == IF kind = "Access" THEN keys.access_ttl ELSE keys.refresh_ttl

\* the claims verify returns for tk, which the keys of this process signed
\* for user u with kind k
RoundTrips(tk, u, k, t) ==
    LET r == verify(JwtKeys(config), <<Tok(tk)>>, t) IN
    /\ r.tag = "Ok"
    /\ r.val.sub = u
    /\ r.val.kind = k
    /\ r.val.iss = config.issuer
    /\ r.val.aud = config.audience

\* C11: for every user id and kind whose TTL is positive, verify under the
\* same keys accepts the token sign_with_kind has just made and returns its
\* sub, its kind and the configured issuer and audience; so for the pair a
\* successful login returns.
C11_SignVerifyRoundTrip ==
    /\ \A u \in UserIds : \A k \in Kinds :
         TtlOf(JwtKeys(config), k) > 0
         => RoundTrips(sign_with_kind(JwtKeys(config), u, k, now), u, k, now)
    /\ (lastReq.op = "login" /\ resp.status = 200)
       => /\ TtlOf(JwtKeys(config), "Access") > 0
             => RoundTrips(resp.tokens[1], resp.user, "Access", lastReq.at)
          /\ TtlOf(JwtKeys(config), "Refresh") > 0
             => RoundTrips(resp.tokens[2], resp.user, "Refresh", lastReq.at)

\* a login under a positive access TTL returned a pair
C11_Witness ==
    /\ lastReq.op = "login"
    /\ resp.status = 200
    /\ TtlOf(JwtKeys(config), "Access") > 0
    /\ resp.tokens[1].sub = resp.user
    /\ resp.tokens[2].kind = "Refresh"

\* tk carries the secret of this process and another issuer or audience
SignedForOthers(tk) ==
    /\ tk.sig = config.secret
    /\ (tk.iss # config.issuer \/ tk.aud # config.audience)

\* C12: verify rejects every token that keys sharing the secret signed with
\* an issuer or an audience other than the verifier's, and the guard turns a
\* request carrying it away.
C12_OtherIssuerOrAudienceRejected ==
    /\ \A tk \in issued :
         SignedForOthers(tk)
         => verify(JwtKeys(config), <<Tok(tk)>>, now).tag = "Err"
    /\ (lastReq.op = "get_me"
          /\ \E tk \in TokensIn(lastReq.header) : SignedForOthers(tk))
       => (resp.status = 401 /\ ~resp.handlerRan)

\* the exp of tk lies more than the leeway before t
Expired(tk, t) == tk.exp + Leeway < t

\* C13: verify rejects every token whose exp lies more than 60 seconds in the
\* past; the guard answers a bearer request carrying one with 401 "invalid or
\* expired token" and runs no handler; refresh answers 401 and returns no
\* pair.
C13_ExpiredTokenRejected ==
    /\ \A tk \in issued :
         Expired(tk, now)
         => /\ verify(JwtKeys(config), <<Tok(tk)>>, now).tag = "Err"
            /\ \A h \in BearerOf(tk) :
                 from_request_parts(h, JwtKeys(config), now)
                    = Rejection("invalid or expired token")
    /\ \A tk \in TokensIn(lastReq.header) :
         (lastReq.op = "get_me" /\ Expired(tk, lastReq.at))
         => /\ resp.status = 401
            /\ ~resp.handlerRan
            /\ resp.user = 0
            /\ lastReq.header \in BearerOf(tk) => resp.body = "invalid or expired token"
    /\ (lastReq.op = "refresh"
          /\ Len(lastReq.token) = 1
          /\ lastReq.token[1].t = "tok"
          /\ Expired(lastReq.token[1].tok, lastReq.at))
       => (resp.status = 401 /\ resp.tokens = <<>> /\ resp.user = 0)

\* a token of this process, expired by more than the leeway, was turned away
C13_Witness ==
    /\ lastReq.op = "get_me"
    /\ \E tk \in TokensIn(lastReq.header) :
          /\ tk.sig = config.secret
          /\ tk.iss = config.issuer
          /\ tk.kind = "Access"
          /\ Expired(tk, lastReq.at)
          /\ lastReq.header \in BearerOf(tk)
    /\ resp.status = 401
    /\ resp.body = "invalid or expired token"

\* C14: a token that keys with a TTL of 0 minutes have signed (exp equal to
\* the signing instant) is rejected by verify at that instant.
C14_ZeroTtlTokenRejectedAtOnce ==
    (lastReq.op = "login" /\ resp.status = 200 /\ lastReq.at = now)
    => \A i \in 1..Len(resp.tokens) :
          resp.tokens[i].exp = resp.tokens[i].iat
          => verify(JwtKeys(config), <<Tok(resp.tokens[i])>>, now).tag = "Err"

\* C15: the claims of every token sign_access or sign_refresh has made
\* satisfy exp > iat.
C15_ExpAfterIat ==
    (lastReq.op \in {"login", "refresh"} /\ resp.status = 200)
    => \A i \in 1..Len(resp.tokens) : resp.tokens[i].exp > resp.tokens[i].iat

----------------------------------------------------------------------------
(* The guard: C16 .. C18 *)

\* casings of the scheme word
BearerWords == {"Bearer", "bearer", "BEARER", "bEaReR"}

\* the header is, up to surrounding whitespace, a casing of the word bearer,
\* one space and the token tk
BearerAnyCase(h, tk) ==
    /\ h.present
    /\ \E w \in BearerWords : hdr_trim(h.atoms) = <<Word(w), Ws, Tok(tk)>>

\* C16: for every casing of the word bearer followed by a space and an access
\* token that verify accepts, with optional surrounding whitespace, the guard
\* yields the token's subject and the handler runs for it.
C16_BearerAnyCaseAccepted ==
    \A tk \in TokensIn(lastReq.header) :
        ( /\ lastReq.op = "get_me"
          /\ BearerAnyCase(lastReq.header, tk)
          /\ tk.kind = "Access"
          /\ verify(JwtKeys(config), <<Tok(tk)>>, lastReq.at).tag = "Ok" )
        => ( /\ from_request_parts(lastReq.header, JwtKeys(config), lastReq.at)
                  = Ok(tk.sub)
             /\ resp.handlerRan )

\* the header value, trimmed, begins with the scheme the extractor strips
HasBearerScheme(h) ==
    \/ strip_prefix(hdr_trim(h.atoms), "Bearer").tag = "Ok"
    \/ strip_prefix(hdr_trim(h.atoms), "bearer").tag = "Ok"

\* what follows the scheme
AfterScheme(h) == SubSeq(hdr_trim(h.atoms), 3, Len(hdr_trim(h.atoms)))

Answered401(msg) ==
    /\ resp.status = 401
    /\ resp.body = msg
    /\ ~resp.handlerRan

\* C17: the guard's answer is that of the first failing check in the order
\* header present, scheme, verification, kind: no header, 401 "missing
\* Authorization header"; a header without the Bearer scheme, 401 "invalid
\* auth scheme"; a Bearer token that verify rejects, 401 "invalid or expired
\* token"; every rejection is a 401 and the handler does not run.
C17_FirstFailingCheckDecides ==
    lastReq.op = "get_me"
    => LET h == lastReq.header IN
       /\ ~h.present => Answered401("missing Authorization header")
       /\ (h.present /\ ~HasBearerScheme(h)) => Answered401("invalid auth scheme")
       /\ ( /\ h.present
            /\ HasBearerScheme(h)
            /\ verify(JwtKeys(config), AfterScheme(h), lastReq.at).tag = "Err" )
          => Answered401("invalid or expired token")
       /\ ~resp.handlerRan => (resp.status = 401 /\ resp.user = 0)

UserRowOf(id) == {u \in users : u.id = id}

\* C18: the guard looks up no user: a GET /me carrying an access token that
\* verify accepts passes the guard whether or not the user row exists; with
\* the row deleted, the handler answers 401 "User not found" and returns no
\* user; with the row present, a 200 returns that user.
C18_DeletedUserPassesGuardOnly ==
    [][ ( /\ lastReq'.op = "get_me"
          /\ <<lastReq', resp'>> # <<lastReq, resp>> )
        => \A tk \in TokensIn(lastReq'.header) :
              ( /\ lastReq'.header \in BearerOf(tk)
                /\ tk.kind = "Access"
                /\ verify(JwtKeys(config), <<Tok(tk)>>, now).tag = "Ok" )
              => ( /\ resp'.handlerRan
                   /\ UserRowOf(tk.sub) = {}
                        => ( /\ resp'.status = 401
                             /\ resp'.body = "User not found"
                             /\ resp'.user = 0 )
                   /\ resp'.status = 200 => resp'.user = tk.sub ) ]_vars

\* GET /me with a token that verify accepts, of a user whose row is gone
C18_Witness ==
    /\ lastReq.op = "get_me"
    /\ \E tk \in TokensIn(lastReq.header) :
          /\ lastReq.header \in BearerOf(tk)
          /\ tk.kind = "Access"
          /\ tk \in issued
          /\ verify(JwtKeys(config), <<Tok(tk)>>, lastReq.at).tag = "Ok"
          /\ UserRowOf(tk.sub) = {}
    /\ resp.handlerRan
    /\ resp.status = 401
    /\ resp.body = "User not found"

----------------------------------------------------------------------------
(* Refresh and error bodies: C19, C20 *)

\* tk is a refresh token of this process that has not expired at t
LiveRefreshToken(tk, t) ==
    /\ tk.kind = "Refresh"
    /\ tk.sig = config.secret
    /\ tk.iss = config.issuer
    /\ tk.aud = config.audience
    /\ tk.exp + Leeway >= t

\* C19: refresh keeps no state: whatever was answered before, a refresh
\* request with a refresh token of this process that has not expired is
\* accepted and answered with a new pair for the same subject that verify
\* accepts (or with 401 "User not found" when the user row cannot be read),
\* and a refresh request changes no table and no configuration.
C19_RefreshIsStateless ==
    [][ /\ ( /\ lastReq'.op = "refresh"
             /\ Len(lastReq'.token) = 1
             /\ lastReq'.token[1].t = "tok"
             /\ LiveRefreshToken(lastReq'.token[1].tok, lastReq'.at) )
           => LET tk == lastReq'.token[1].tok IN
              \/ /\ resp'.status = 200
                 /\ resp'.user = tk.sub
                 /\ Len(resp'.tokens) = 2
                 /\ RoundTrips(resp'.tokens[1], tk.sub, "Access", lastReq'.at)
                 /\ RoundTrips(resp'.tokens[2], tk.sub, "Refresh", lastReq'.at)
              \/ /\ resp'.status = 401
                 /\ resp'.body = "User not found"
        /\ ( /\ lastReq'.op = "refresh"
             /\ <<lastReq', resp'>> # <<lastReq, resp>> )
           => ( /\ users' = users
                /\ nextUserId' = nextUserId
                /\ config' = config
                /\ <<meals', photos', storage'>> = <<meals, photos, storage>> ) ]_vars

\* a refresh token older than the pair the client holds was accepted again
C19_Witness ==
    /\ lastReq.op = "refresh"
    /\ resp.status = 200
    /\ Len(lastReq.token) = 1
    /\ lastReq.token[1].t = "tok"
    /\ lastReq.token[1].tok \notin issued
    /\ lastReq.token[1].tok.iat < lastReq.at
    /\ resp.tokens[2] \in issued
    /\ resp.tokens[2] # lastReq.token[1].tok

\* error texts of the dependencies (database driver, argon2)
InternalErrorTexts ==
    { "error communicating with database",
      "duplicate key value violates unique constraint",
      "argon2 error" }

\* C20: the body of a response to a request that failed in a dependency is
\* an opaque message and never the error text of that dependency.
C20_NoInternalErrorText ==
    \A r \in Reqs :
        reg[r].pc = "done" => reg[r].body \notin InternalErrorTexts


----------------------------------------------------------------------------
(* Ownership of meals: C21 .. C23, C28 *)

OwnerOf(m) == {r.user_id : r \in {x \in meals : x.id = m}}

\* C21: reading the details of meal m as user u succeeds only when u is the
\* owner of m at that moment; for a meal that is absent, owned by another
\* user or unlinked, get_meal_details fails and GET /meals/:id answers 404.
C21_DetailsOnlyForOwner ==
    \A u \in UserIds : \A m \in MealIds :
        /\ \A d \in get_meal_details(u, m) :
             (d.tag = "Ok") <=> (OwnerOf(m) = {u})
        /\ (get_meal(u, m).status = 200) <=> (OwnerOf(m) = {u})
        /\ OwnerOf(m) # {u} => get_meal(u, m).status = 404


\* the row of meal m with title and notes blanked
Frame(r) == [r EXCEPT !.title = "", !.notes = ""]

\* C22: an update of meal m by user u succeeds and sets title and notes only
\* when u owns m at that moment; when m is absent, owned by another user or
\* unlinked, it fails with "meal not found or not accessible" and leaves the
\* table as it was; a successful update changes nothing but the title and the
\* notes of m.
C22_UpdateOnlyByOwner ==
    [][ lastOp'.op = "update" /\ lastOp' # lastOp
        => LET u == lastOp'.user
               m == lastOp'.meal
           IN  /\ lastOp'.res.tag = "Ok" => OwnerOf(m) = {u}
               /\ OwnerOf(m) # {u}
                    => /\ lastOp'.res.tag = "Err"
                       /\ meals' = meals
               /\ (OwnerOf(m) # {u} /\ lastOp'.res.val # "update meal")
                    => lastOp'.res = Err("meal not found or not accessible")
               /\ lastOp'.res.tag = "Ok"
                    => /\ \E r \in meals' : /\ r.id = m
                                            /\ r.title = lastOp'.title
                                            /\ r.notes = lastOp'.notes
                       /\ {Frame(r) : r \in meals'} = {Frame(r) : r \in meals}
                       /\ {r \in meals' : r.id # m} = {r \in meals : r.id # m}
               /\ <<photos', storage'>> = <<photos, storage>> ]_vars


\* the row of meal m with the owner blanked
Disowned(r) == [r EXCEPT !.user_id = 0]

\* C23: an unlink of meal m by user u succeeds exactly when u owns m at that
\* moment (and the database answers); it then sets the owner of m to null and
\* changes nothing else: the row stays with its id, title, notes and
\* created_at, and so do all photo rows and stored objects. An unlink by a
\* user who does not own m fails with "meal not found or already unlinked"
\* and changes nothing.
C23_UnlinkNullsOwnerOnly ==
    [][ lastOp'.op = "unlink" /\ lastOp' # lastOp
        => LET u == lastOp'.user
               m == lastOp'.meal
           IN  /\ lastOp'.res.tag = "Ok" => OwnerOf(m) = {u}
               /\ (OwnerOf(m) = {u} /\ lastOp'.res.tag = "Err")
                    => lastOp'.res = Err("unlink meal")
               /\ lastOp'.res.tag = "Ok"
                    => /\ meals' = {IF r.id = m THEN Disowned(r) ELSE r : r \in meals}
                       /\ Cardinality(meals') = Cardinality(meals)
                       /\ \E r \in meals' : r.id = m /\ r.user_id = 0
               /\ OwnerOf(m) # {u}
                    => /\ lastOp'.res.tag = "Err"
                       /\ lastOp'.res.val # "unlink meal"
                            => lastOp'.res = Err("meal not found or already unlinked")
               /\ lastOp'.res.tag = "Err" => meals' = meals
               /\ <<photos', storage'>> = <<photos, storage>> ]_vars

\* the owner has unlinked a meal with a title and photos; the row, the photo
\* rows and the objects are still there
C23_Witness ==
    /\ lastOp.op = "unlink"
    /\ lastOp.res.tag = "Ok"
    /\ \E r \in meals : /\ r.id = lastOp.meal
                        /\ r.user_id = 0
                        /\ r.title # ""
    /\ \E p \in photos : p.meal_id = lastOp.meal /\ p.s3_key \in StoredKeys


\* the rows a listing names
ListedIds(l) == {l[i].id : i \in 1..Len(l)}

NewestFirst(l) ==
    \A i, j \in 1..Len(l) : i < j => l[i].created_at >= l[j].created_at

\* C28: whatever was created, updated and unlinked before, every answer of
\* list_meals and of Meal::list_by_user for user u lists only meals whose
\* owner is u at that moment, each at most once, newest first; with a limit
\* that covers the table it lists all of them.
C28_ListOnlyOwnNewestFirst ==
    \A u \in UserIds : \A limit \in Limits : \A offset \in Offsets :
        /\ list_meals(u, limit, offset) # {}
        /\ \A a \in list_meals(u, limit, offset) \cup list_by_user(u, limit, offset) :
             /\ a.tag = "Ok"
             /\ \A i \in 1..Len(a.val) : OwnerOf(a.val[i].id) = {u}
             /\ \A i, j \in 1..Len(a.val) : i # j => a.val[i].id # a.val[j].id
             /\ NewestFirst(a.val)
             /\ Len(a.val) <= limit
             /\ (offset = 0 /\ limit >= Cardinality(meals))
                  => ListedIds(a.val) = {r.id : r \in {x \in meals : x.user_id = u}}

\* a user who owns the newer of two meals lists it alone: the older meal
\* belongs to nobody or to the other user
C28_Witness ==
    \E u \in UserIds : \E r1 \in meals : \E r2 \in meals :
        /\ r1.user_id = u
        /\ r2.user_id # u
        /\ r1.created_at > r2.created_at
        /\ lastOp.op = "unlink"
        /\ lastOp.res.tag = "Ok"
        /\ \E a \in list_meals(u, 2, 0) : ListedIds(a.val) = {r1.id}


----------------------------------------------------------------------------
(* Login: C24, C29 *)

\* the registration has succeeded
RegisteredOk == reg[1].pc = "done" /\ reg[1].status = 200

SameEmail(raw1, raw2) == to_lowercase(trim(raw1)) = to_lowercase(trim(raw2))

\* the credentials of request rq are those of the successful registration
Matches(rq) ==
    /\ RegisteredOk
    /\ SameEmail(rq.raw, reg[1].rawEmail)
    /\ rq.password = reg[1].password

InvalidCredentials == [NoResp EXCEPT !.status = 401, !.body = "Invalid credentials"]

\* C24: a login whose email is well-formed and whose lookup the database
\* answers returns 200 with a token pair of the registered user exactly when
\* its email normalizes to the registered one and its password is the
\* registered one; with a wrong password or an email nobody registered it
\* returns 401 "Invalid credentials" and no tokens; no login returns tokens
\* for other credentials.
C24_LoginIffRegisteredCredentials ==
    [][ (lastReq'.op = "login" /\ reg' = reg)
        => /\ resp'.status = 200
                => /\ Matches(lastReq')
                   /\ resp'.user = reg[1].userId
                   /\ Len(resp'.tokens) = 2
                   /\ resp'.tokens[1].sub = reg[1].userId
                   /\ resp'.tokens[1].kind = "Access"
                   /\ resp'.tokens[2].sub = reg[1].userId
                   /\ resp'.tokens[2].kind = "Refresh"
           /\ (Matches(lastReq') /\ resp'.status # 500) => resp'.status = 200
           /\ ( /\ ~Matches(lastReq')
                /\ is_valid_email(to_lowercase(trim(lastReq'.raw)))
                /\ resp'.status # 500 )
                => resp' = InvalidCredentials
           /\ resp'.status # 200 => (resp'.tokens = <<>> /\ resp'.user = 0) ]_vars

\* a login that spells the registered email with other case and padding
\* got the pair of the registered user
C24_Witness ==
    /\ lastReq.op = "login"
    /\ resp.status = 200
    /\ RegisteredOk
    /\ lastReq.raw # reg[1].rawEmail
    /\ SameEmail(lastReq.raw, reg[1].rawEmail)
    /\ resp.user = reg[1].userId
    /\ resp.tokens[1].sub = reg[1].userId


\* the email of request rq is that of a row of users
KnownEmail(rq) == \E u \in users : u.email = to_lowercase(trim(rq.raw))

\* a login that was turned away for its credentials
Refused(rs) == rs.status \notin {0, 200, 400, 500}

\* C29: a login with a well-formed email that is not answered with tokens
\* (the lookup having been answered) gets the same response, 401 "Invalid
\* credentials" with nothing else in it, whether the email is unknown or the
\* email is known and the password wrong; the responses of two such logins
\* made one after the other are equal.
C29_UnknownEmailLikeWrongPassword ==
    [][ (lastReq'.op = "login" /\ reg' = reg)
        => /\ ( /\ is_valid_email(to_lowercase(trim(lastReq'.raw)))
                /\ resp'.status \notin {200, 500} )
                => resp' = InvalidCredentials
           /\ Refused(resp') => resp' = InvalidCredentials
           /\ (lastReq.op = "login" /\ Refused(resp) /\ Refused(resp'))
                => resp' = resp ]_vars

\* the email is registered, the password is not the registered one, and the
\* answer is the one an unknown email gets
C29_Witness ==
    /\ lastReq.op = "login"
    /\ RegisteredOk
    /\ KnownEmail(lastReq)
    /\ lastReq.password # reg[1].password
    /\ resp = InvalidCredentials


----------------------------------------------------------------------------
(* The pre-check of register: C27 *)

\* C27: register reaches the INSERT only after find_by_email has answered
\* that no row has the email; when find_by_email fails, register answers
\* with an error and User::create is not called.
C27_InsertOnlyAfterSuccessfulLookup ==
    \A r \in Reqs :
        /\ reg[r].pc = "insert" => reg[r].lookup = "absent"
        /\ reg[r].insert # "none" => reg[r].lookup = "absent"
        /\ reg[r].lookup = "err"
             => (reg[r].pc = "done" /\ reg[r].status >= 400 /\ reg[r].insert = "none")


----------------------------------------------------------------------------
(* Uploads and their failures: C25, C26, C30 *)

\* the objects call w has put so far are all in the bucket
AllUploadsStored(w) ==
    \A k \in 1..Len(call[w].objs) : call[w].objs[k].key \in StoredKeys

\* C25: when every upload of a call has succeeded and the photo transaction
\* then fails, the call ends with an error, no photo row of the call is
\* visible, and every object the call uploaded is still in the bucket; no
\* step ever removes an object from the bucket.
C25_TxFailureOrphansObjects ==
    [][ /\ \A w \in Calls :
             (call'[w].pc = "failed" /\ call'[w].err = "photo tx")
             => /\ Len(call'[w].objs) = Len(call'[w].req.images)
                /\ call'[w].puts = Len(call'[w].req.images)
                /\ call'[w].images = <<>>
                /\ {p \in photos' : p.meal_id = NewMealId(w)} = {}
                /\ \A k \in 1..Len(call'[w].objs) :
                     \E o \in storage' : /\ o.key = call'[w].objs[k].key
                                         /\ o.body = call'[w].req.images[k]
                /\ Cardinality({o \in storage' : o.key.meal = NewMealId(w)})
                      = Len(call'[w].req.images)
        /\ storage \subseteq storage' ]_vars

\* a call with two images has failed in its photo transaction and both
\* objects are in the bucket without photo rows
C25_Witness ==
    \E w \in Calls :
        /\ call[w].pc = "failed"
        /\ call[w].err = "photo tx"
        /\ Len(call[w].req.images) = 2
        /\ Cardinality(ObjectsOf(w)) = 2
        /\ PhotoRowsOf(w) = {}


\* the objects of call w in the bucket are those of its first n images, in
\* submission order
FirstStored(w, n) ==
    /\ Len(call[w].objs) = n
    /\ \A k \in 1..n :
         /\ call[w].objs[k].id = NewPhotoId(w, k)
         /\ [key |-> call[w].objs[k].key, body |-> call[w].req.images[k],
             content_type |-> call[w].items[k].content_type] \in storage

\* C26: a call puts its images one at a time in submission order: after k
\* put_object calls the bucket holds exactly the objects of the first k
\* images, or of the first k-1 when the k-th put failed; the failure ends the
\* call, so no later image is put, and nothing is deleted: the k-1 objects
\* stay.
C26_UploadsInOrderStopAtFailure ==
    /\ \A w \in Calls :
         /\ call[w].puts <= Len(call[w].req.images)
         /\ FirstStored(w, IF call[w].pc = "failed" /\ call[w].err = "put_object"
                           THEN call[w].puts - 1 ELSE call[w].puts)
    /\ \A o \in storage : \E w \in Calls :
         /\ o.key.meal = NewMealId(w)
         /\ \E k \in 1..Len(call[w].objs) : o.key = call[w].objs[k].key

\* the second of two uploads failed: the first object is in the bucket
C26_Witness ==
    \E w \in Calls :
        /\ call[w].pc = "failed"
        /\ call[w].err = "put_object"
        /\ call[w].puts = 2
        /\ Cardinality(ObjectsOf(w)) = 1
        /\ \E o \in ObjectsOf(w) : o.body = call[w].req.images[1]


\* requests with fewer, as many and more content types than images
TypedRequests ==
    { [images |-> im, content_types |-> ct] :
        im \in ImageLists \ {<<>>},
        ct \in { <<>>, <<"image/png">>, <<"application/pdf", "image/webp">>,
                 <<"image/heic", "image/jpg", "image/png", "text/plain">> } }

\* the extension the storage key of an object of type ct is to carry
ExpectedExt(ct) ==
    CASE ct = "image/jpeg" -> "jpg"
      [] ct = "image/jpg" -> "jpg"
      [] ct = "image/png" -> "png"
      [] ct = "image/webp" -> "webp"
      [] ct = "image/heic" -> "heic"
      [] OTHER -> "bin"

ItemTypes == {"image/jpeg", "image/jpg", "image/png", "image/webp", "image/heic",
              "application/pdf", "application/octet-stream", "text/plain", ""}

\* normalize_images on the requests: one item per image, in order, with the
\* bytes of the image and its content type or "image/jpeg"
NormalizedAsSubmitted ==
    \A req \in TypedRequests \cup {r \in MealRequests : Len(r.images) > 0} :
        LET n == normalize_images(req) IN
        /\ n.tag = "Ok"
        /\ Len(n.val) = Len(req.images)
        /\ \A i \in 1..Len(req.images) :
             /\ n.val[i].body = req.images[i]
             /\ i <= Len(req.content_types)
                  => n.val[i].content_type = req.content_types[i]
             /\ i > Len(req.content_types) => n.val[i].content_type = "image/jpeg"

\* ext_from_mime(ct).unwrap_or("bin") on the content types
ExtensionsAsExpected ==
    \A ct \in ItemTypes :
        LET e == ext_from_mime(ct) IN
        (IF e.tag = "Ok" THEN e.val ELSE "bin") = ExpectedExt(ct)

\* C30: for a request with at least one image normalize_images returns one
\* item per image, in order, with the bytes of the image, and with
\* content_types[i] where the request has one and "image/jpeg" where it has
\* not; the items of every call are those; the key of every stored object
\* ends in jpg, png, webp or heic for the image types and in bin for every
\* other type.
C30_NormalizedItemsAndExtensions ==
    /\ NormalizedAsSubmitted
    /\ ExtensionsAsExpected
    /\ \A w \in Calls :
         call[w].pc \in {"upload", "link", "done"}
         => \A i \in 1..Len(call[w].req.images) :
                 /\ Len(call[w].items) = Len(call[w].req.images)
                 /\ call[w].items[i].body = call[w].req.images[i]
                 /\ call[w].items[i].content_type =
                      IF i <= Len(call[w].req.content_types)
                      THEN call[w].req.content_types[i] ELSE "image/jpeg"
    /\ \A o \in storage : o.key.ext = ExpectedExt(o.content_type)

\* objects of a typed and of an untyped request are stored: a pdf under bin,
\* a webp under webp, and an image without a type under jpg
C30_Witness ==
    /\ \E o \in storage : o.content_type = "application/pdf" /\ o.key.ext = "bin"
    /\ \E o \in storage : o.content_type = "image/webp" /\ o.key.ext = "webp"
    /\ \E w \in Calls :
         /\ call[w].req.content_types = <<>>
         /\ call[w].pc = "done"
         /\ \A o \in ObjectsOf(w) : o.content_type = "image/jpeg" /\ o.key.ext = "jpg"

====
